---- MODULE Spec2Model ----
(***************************************************************************)
(* Model of "Group 7 Database management/setup_database.py": the schema    *)
(* initializer (create_connection, create_tables, main) and the SQLite     *)
(* store it initialises.  The store is modelled as far as the declared     *)
(* schema decides it: the catalog of created tables with their NOT NULL,   *)
(* CHECK and FOREIGN KEY clauses, and the rows of those tables as the      *)
(* engine accepts, rejects, cascades and nulls them.                       *)
(*                                                                         *)
(* Columns that carry no CHECK and no FOREIGN KEY and are not named by a   *)
(* property below (names, dates, free text) are left out of the rows, and  *)
(* with them the UNIQUE constraints on the names.  A column holds an       *)
(* integer or NULL.  Rows are inserted without a key (SQLite assigns it),  *)
(* changed in their non-key columns, and deleted.                          *)
(***************************************************************************)
EXTENDS Integers, Sequences, FiniteSets, TLC

VARIABLES
    catalog,   \* the store's schema: table name -> stored table definition
    rows,      \* the store's data: table name -> (primary key -> row)
    pc,        \* "idle", main() at "pragma", "create", "commit", "close", "done",
               \* or a session's "statement" that has just been executed
    stmt,      \* index of the next CREATE statement of create_tables (0 outside it)
    conn,      \* the connection of the running main(): state and foreign_keys flag
    run,       \* the current run of main(): the tables it found, the error it met
    trace,     \* the steps the current run of main() has executed, in order
    last       \* the row statement a session has just executed, and its outcome

vars == <<catalog, rows, pc, stmt, conn, run, trace, last>>

-----------------------------------------------------------------------------
(* Bounds of the exploration.                                              *)

\* An initialised store is explored up to MaxRows rows in total over keys
\* Keys, and besides that in every population with at most one row (key 1)
\* per table.
MaxRows == 4

\* main() is started on stores of at most MaxRerunRows rows, and a store that
\* is not fully initialised holds at most that many.
MaxRerunRows == 2

\* The primary keys a table may hold and the foreign-key values offered to
\* the row statements.
Keys == {1, 2}

\* Values offered for the quantity columns.
Quantities == {-1, 0}

-----------------------------------------------------------------------------
(* SQL values: a column holds NULL or one integer.                         *)

NULL == {}

Val(v) == {v}

ValueOf(x) == CHOOSE v \in x : TRUE

-----------------------------------------------------------------------------
(* The nine CREATE TABLE statements of create_tables.  Of every statement  *)
(* the model keeps: the table name, IF NOT EXISTS, the modelled columns,   *)
(* which of them are NOT NULL, which carry CHECK (col >= 0), and the       *)
(* FOREIGN KEY clauses with their ON DELETE action.                        *)

FK(col, parent, onDelete) == [col |-> col, parent |-> parent, onDelete |-> onDelete]

\* Variant: CREATE TABLE UserAccount without IF NOT EXISTS.
sql_create_user_account_table_plain ==
    [name |-> "UserAccount", ifNotExists |-> FALSE,
     keys |-> {}, nums |-> {}, notNull |-> {}, checks |-> {}, fks |-> {}]

sql_create_user_account_table ==
    [name |-> "UserAccount", ifNotExists |-> TRUE,
     keys |-> {}, nums |-> {}, notNull |-> {}, checks |-> {}, fks |-> {}]

sql_create_production_line_table ==
    [name |-> "ProductionLine", ifNotExists |-> TRUE,
     keys |-> {}, nums |-> {}, notNull |-> {}, checks |-> {}, fks |-> {}]

\* Variant: ProductionLineID declared ON DELETE RESTRICT.
sql_create_production_batch_table_restrict ==
    [name |-> "ProductionBatch", ifNotExists |-> TRUE,
     keys |-> {"ProductionLineID", "CreatedByUserID"},
     nums |-> {"QuantityProduced"},
     notNull |-> {"ProductionLineID", "QuantityProduced"},
     checks |-> {"QuantityProduced"},
     fks |-> {FK("ProductionLineID", "ProductionLine", "RESTRICT"),
              FK("CreatedByUserID", "UserAccount", "SET NULL")}]

\* Variant: CreatedByUserID declared ON DELETE CASCADE.
sql_create_production_batch_table_user_cascade ==
    [name |-> "ProductionBatch", ifNotExists |-> TRUE,
     keys |-> {"ProductionLineID", "CreatedByUserID"},
     nums |-> {"QuantityProduced"},
     notNull |-> {"ProductionLineID", "QuantityProduced"},
     checks |-> {"QuantityProduced"},
     fks |-> {FK("ProductionLineID", "ProductionLine", "CASCADE"),
              FK("CreatedByUserID", "UserAccount", "CASCADE")}]

sql_create_production_batch_table ==
    [name |-> "ProductionBatch", ifNotExists |-> TRUE,
     keys |-> {"ProductionLineID", "CreatedByUserID"},
     nums |-> {"QuantityProduced"},
     notNull |-> {"ProductionLineID", "QuantityProduced"},
     checks |-> {"QuantityProduced"},
     fks |-> {FK("ProductionLineID", "ProductionLine", "CASCADE"),
              FK("CreatedByUserID", "UserAccount", "SET NULL")}]

\* Variant: QuantityInStock declared without its CHECK.
sql_create_inventory_item_table_unchecked ==
    [name |-> "InventoryItem", ifNotExists |-> TRUE,
     keys |-> {},
     nums |-> {"QuantityInStock", "ReorderThreshold"},
     notNull |-> {"QuantityInStock"},
     checks |-> {"ReorderThreshold"},
     fks |-> {}]

sql_create_inventory_item_table ==
    [name |-> "InventoryItem", ifNotExists |-> TRUE,
     keys |-> {},
     nums |-> {"QuantityInStock", "ReorderThreshold"},
     notNull |-> {"QuantityInStock"},
     checks |-> {"QuantityInStock", "ReorderThreshold"},
     fks |-> {}]

sql_create_inventory_transaction_table ==
    [name |-> "InventoryTransaction", ifNotExists |-> TRUE,
     keys |-> {"InventoryItemID", "BatchID", "UpdatedByUserID"},
     nums |-> {"QuantityChange"},
     notNull |-> {"InventoryItemID", "QuantityChange"},
     checks |-> {},
     fks |-> {FK("InventoryItemID", "InventoryItem", "CASCADE"),
              FK("BatchID", "ProductionBatch", "SET NULL"),
              FK("UpdatedByUserID", "UserAccount", "SET NULL")}]

sql_create_defect_type_table ==
    [name |-> "DefectType", ifNotExists |-> TRUE,
     keys |-> {}, nums |-> {}, notNull |-> {}, checks |-> {}, fks |-> {}]

\* Variant: DefectTypeID declared ON DELETE CASCADE.
sql_create_defect_log_table_cascade ==
    [name |-> "DefectLog", ifNotExists |-> TRUE,
     keys |-> {"BatchID", "DefectTypeID", "LoggedByUserID"},
     nums |-> {},
     notNull |-> {"BatchID", "DefectTypeID"},
     checks |-> {},
     fks |-> {FK("BatchID", "ProductionBatch", "CASCADE"),
              FK("DefectTypeID", "DefectType", "CASCADE"),
              FK("LoggedByUserID", "UserAccount", "SET NULL")}]

sql_create_defect_log_table ==
    [name |-> "DefectLog", ifNotExists |-> TRUE,
     keys |-> {"BatchID", "DefectTypeID", "LoggedByUserID"},
     nums |-> {},
     notNull |-> {"BatchID", "DefectTypeID"},
     checks |-> {},
     fks |-> {FK("BatchID", "ProductionBatch", "CASCADE"),
              FK("DefectTypeID", "DefectType", "RESTRICT"),
              FK("LoggedByUserID", "UserAccount", "SET NULL")}]

sql_create_return_reason_table ==
    [name |-> "ReturnReason", ifNotExists |-> TRUE,
     keys |-> {}, nums |-> {}, notNull |-> {}, checks |-> {}, fks |-> {}]

sql_create_return_log_table ==
    [name |-> "ReturnLog", ifNotExists |-> TRUE,
     keys |-> {"BatchID", "ReturnReasonID", "ProcessedByUserID"},
     nums |-> {},
     notNull |-> {},
     checks |-> {},
     fks |-> {FK("BatchID", "ProductionBatch", "SET NULL"),
              FK("ReturnReasonID", "ReturnReason", "SET NULL"),
              FK("ProcessedByUserID", "UserAccount", "SET NULL")}]

\* Variant: the last statement is never executed.
StatementsWithoutReturnLog ==
    << sql_create_user_account_table,
       sql_create_production_line_table,
       sql_create_production_batch_table,
       sql_create_inventory_item_table,
       sql_create_inventory_transaction_table,
       sql_create_defect_type_table,
       sql_create_defect_log_table,
       sql_create_return_reason_table >>

\* Variant: ProductionBatch is created before ProductionLine.
StatementsBatchFirst ==
    << sql_create_user_account_table,
       sql_create_production_batch_table,
       sql_create_production_line_table,
       sql_create_inventory_item_table,
       sql_create_inventory_transaction_table,
       sql_create_defect_type_table,
       sql_create_defect_log_table,
       sql_create_return_reason_table,
       sql_create_return_log_table >>

\* The statements in the order create_tables executes them.
Statements ==
    << sql_create_user_account_table,
       sql_create_production_line_table,
       sql_create_production_batch_table,
       sql_create_inventory_item_table,
       sql_create_inventory_transaction_table,
       sql_create_defect_type_table,
       sql_create_defect_log_table,
       sql_create_return_reason_table,
       sql_create_return_log_table >>

NumStatements == Len(Statements)

TableNames == {Statements[i].name : i \in 1..NumStatements}

\* What the store keeps of an executed CREATE TABLE statement.
TableDef(s) ==
    [keys |-> s.keys, nums |-> s.nums, notNull |-> s.notNull,
     checks |-> s.checks, fks |-> s.fks]

Columns(def) == def.keys \cup def.nums

-----------------------------------------------------------------------------
(* Executing one CREATE TABLE statement on a catalog.                      *)

\* "table X already exists": raised only without IF NOT EXISTS.
CreateFails(s, cat) == s.name \in DOMAIN cat /\ ~s.ifNotExists

\* The catalog after the statement succeeded: an existing table of that name
\* is kept as it is, otherwise the table is added.
CreateCatalog(s, cat) ==
    IF s.name \in DOMAIN cat THEN cat ELSE (s.name :> TableDef(s)) @@ cat

\* The rows after the statement succeeded: a new table is empty.
CreateRows(s, rws) ==
    IF s.name \in DOMAIN rws THEN rws ELSE (s.name :> <<>>) @@ rws

-----------------------------------------------------------------------------
(* The engine's row statements on the stored definitions.  fk is the       *)
(* session's foreign_keys flag: with it off SQLite neither checks a        *)
(* reference nor acts on a delete.                                         *)

\* CHECK (col >= 0): a CHECK fails only when its expression is false, and
\* the expression of a NULL is NULL, not false.
CheckNonNegative(x) == x = NULL \/ ValueOf(x) >= 0

\* A foreign-key value is satisfied when it is NULL or names a parent row.
References(cat, rws, f, x) ==
    x = NULL \/ (f.parent \in DOMAIN cat /\ ValueOf(x) \in DOMAIN rws[f.parent])

\* The constraints of a row that is about to be stored, in the order SQLite
\* evaluates them.  fkcols are the foreign-key columns the statement writes.
RowStatus(cat, rws, fk, t, row, fkcols) ==
    LET def == cat[t] IN
    IF \E c \in def.notNull : row[c] = NULL THEN "notnull"
    ELSE IF \E c \in def.checks : ~CheckNonNegative(row[c]) THEN "check"
    ELSE IF fk /\ \E f \in def.fks :
                     f.col \in fkcols /\ ~References(cat, rws, f, row[f.col]) THEN "fk"
    ELSE "ok"

\* INSERT INTO t of a row that names no key.
InsertStatus(cat, rws, fk, t, row) ==
    RowStatus(cat, rws, fk, t, row, cat[t].keys)

\* The key SQLite assigns to such a row: INTEGER PRIMARY KEY is the rowid,
\* one more than the largest in the table.
NextKey(tbl) ==
    IF DOMAIN tbl = {} THEN 1
    ELSE 1 + CHOOSE k \in DOMAIN tbl : \A j \in DOMAIN tbl : j <= k

\* UPDATE t SET col = x WHERE key = id.
UpdateStatus(cat, rws, fk, t, id, col, x) ==
    RowStatus(cat, rws, fk, t, [rws[t][id] EXCEPT ![col] = x], {col})

\* The child rows <<table, key, column>> that reference a row of `gone`
\* through a foreign key declared with ON DELETE `action`.
Referencing(cat, rws, action, gone) ==
    UNION { UNION { { <<c, k, f.col>> :
                        k \in { k \in DOMAIN rws[c] :
                                  /\ rws[c][k][f.col] # NULL
                                  /\ <<f.parent, ValueOf(rws[c][k][f.col])>> \in gone } } :
                    f \in { f \in cat[c].fks : f.onDelete = action } } :
            c \in DOMAIN cat }

\* The rows a delete removes: the deleted rows and, transitively, every row
\* that references one of them through an ON DELETE CASCADE key.
RECURSIVE Cascade(_, _, _)
Cascade(cat, rws, gone) ==
    LET more == { <<r[1], r[2]>> : r \in Referencing(cat, rws, "CASCADE", gone) } IN
    IF more \subseteq gone THEN gone ELSE Cascade(cat, rws, gone \cup more)

Removed(cat, rws, fk, t, id) ==
    IF fk THEN Cascade(cat, rws, {<<t, id>>}) ELSE {<<t, id>>}

Nulled(cat, rws, fk, t, id) ==
    IF fk
    THEN { r \in Referencing(cat, rws, "SET NULL", Removed(cat, rws, fk, t, id)) :
             <<r[1], r[2]>> \notin Removed(cat, rws, fk, t, id) }
    ELSE {}

\* DELETE FROM t WHERE key = id.
DeleteStatus(cat, rws, fk, t, id) ==
    IF fk /\ Referencing(cat, rws, "RESTRICT", Removed(cat, rws, fk, t, id)) # {}
    THEN "restrict"
    ELSE IF \E r \in Nulled(cat, rws, fk, t, id) : r[3] \in cat[r[1]].notNull
    THEN "notnull"
    ELSE "ok"

DeleteRows(cat, rws, fk, t, id) ==
    LET gone == Removed(cat, rws, fk, t, id)
        nul  == Nulled(cat, rws, fk, t, id)
    IN  [c \in DOMAIN rws |->
           [k \in { k \in DOMAIN rws[c] : <<c, k>> \notin gone } |->
              [col \in DOMAIN rws[c][k] |->
                 IF <<c, k, col>> \in nul THEN NULL ELSE rws[c][k][col]]]]

\* The values a session may offer for a column in an UPDATE.
ValuesOffered(def, col) ==
    {NULL} \cup (IF col \in def.keys THEN {Val(k) : k \in Keys}
                                    ELSE {Val(q) : q \in Quantities})

\* The rows a session may offer in an INSERT: every combination of the
\* offered values, with NULL offered for the columns that admit it.
RowsOffered(def) ==
    LET KeyVals == {Val(k) : k \in Keys}
        NumVals == {Val(q) : q \in Quantities}
    IN  { k1 @@ k2 @@ n1 @@ n2 :
            k1 \in [def.keys \cap def.notNull -> KeyVals],
            k2 \in [def.keys \ def.notNull -> {NULL} \cup KeyVals],
            n1 \in [def.nums \cap def.notNull -> NumVals],
            n2 \in [def.nums \ def.notNull -> {NULL} \cup NumVals] }

TotalRows(rws) ==
    Cardinality(UNION { {<<t, k>> : k \in DOMAIN rws[t]} : t \in DOMAIN rws })

-----------------------------------------------------------------------------
(* The state before main() has run: no database file, hence no table.      *)

NoConnection == [state |-> "none", foreign_keys |-> FALSE]

NoRun == [before |-> {}, error |-> "none", failedAt |-> 0]

NoStatement ==
    [op |-> "none", tbl |-> "", id |-> 0, status |-> "", removed |-> {}, nulled |-> {}]

Init ==
    /\ catalog = <<>>
    /\ rows = <<>>
    /\ pc = "idle"
    /\ stmt = 0
    /\ conn = NoConnection
    /\ run = NoRun
    /\ trace = <<>>
    /\ last = NoStatement

Initialized(cat) == DOMAIN cat = TableNames

-----------------------------------------------------------------------------
(* main(): create_connection, then create_tables and close when a          *)
(* connection was obtained.                                                *)

\* sqlite3.connect succeeded: a new connection has SQLite's default,
\* foreign_keys off.
Connected == [state |-> "open", foreign_keys |-> FALSE]

\* Variant: the PRAGMA is not issued.
EnableForeignKeysSkipped(c) == c

\* conn.execute("PRAGMA foreign_keys = ON;")
EnableForeignKeys(c) == [c EXCEPT !.foreign_keys = TRUE]

\* Variant: main() does not test the handle and goes on after a failed connect.
ConnectUnchecked ==
    /\ pc \in {"idle", "done"}
    /\ TotalRows(rows) <= MaxRerunRows
    /\ \E opened \in BOOLEAN :
         /\ conn' = IF opened THEN Connected ELSE NoConnection
         /\ run' = [before |-> DOMAIN catalog,
                    error |-> IF opened THEN "none" ELSE "connection",
                    failedAt |-> 0]
    /\ pc' = "pragma"
    /\ stmt' = 0
    /\ trace' = <<"connect">>
    /\ last' = NoStatement
    /\ UNCHANGED <<catalog, rows>>

\* create_connection, sqlite3.connect: it opens (or creates) the database
\* file, or raises sqlite3.Error, which is printed and leaves conn = None;
\* main then only prints that it cannot create the connection.
Connect ==
    /\ pc \in {"idle", "done"}
    /\ TotalRows(rows) <= MaxRerunRows
    /\ \E opened \in BOOLEAN :
         /\ conn' = IF opened THEN Connected ELSE NoConnection
         /\ pc' = IF opened THEN "pragma" ELSE "done"
         /\ run' = [before |-> DOMAIN catalog,
                    error |-> IF opened THEN "none" ELSE "connection",
                    failedAt |-> 0]
    /\ stmt' = 0
    /\ trace' = <<"connect">>
    /\ last' = NoStatement
    /\ UNCHANGED <<catalog, rows>>

\* create_connection, the PRAGMA.  It sets a flag of the connection and
\* reads neither the file nor the schema.
Pragma ==
    /\ pc = "pragma"
    /\ conn' = EnableForeignKeys(conn)
    /\ pc' = "create"
    /\ stmt' = 1
    /\ trace' = Append(trace, "foreign_keys")
    /\ UNCHANGED <<catalog, rows, run, last>>

\* Variant: every statement has its own try/except, so create_tables goes on
\* with the next statement after a failure.
CreateTableContinue ==
    /\ pc = "create"
    /\ LET s == Statements[stmt] IN
       \E fault \in BOOLEAN :
         IF fault \/ CreateFails(s, catalog)
         THEN /\ run' = [run EXCEPT !.error = IF CreateFails(s, catalog)
                                               THEN "already exists"
                                               ELSE "environment",
                                    !.failedAt = stmt]
              /\ UNCHANGED <<catalog, rows>>
         ELSE /\ catalog' = CreateCatalog(s, catalog)
              /\ rows' = CreateRows(s, rows)
              /\ run' = run
    /\ pc' = IF stmt = NumStatements THEN "commit" ELSE "create"
    /\ stmt' = IF stmt = NumStatements THEN 0 ELSE stmt + 1
    /\ trace' = Append(trace, Statements[stmt].name)
    /\ UNCHANGED <<conn, last>>

\* create_tables, one cursor.execute.  The statement may raise sqlite3.Error
\* for a reason of its own (CreateFails) or of the environment (a locked or
\* read-only file, a full disk, a file that is no database); the except
\* clause prints it and create_tables returns.  A statement that succeeds is
\* durable at once: Python's sqlite3 opens no transaction for DDL.
CreateTable ==
    /\ pc = "create"
    /\ LET s == Statements[stmt] IN
       \E fault \in BOOLEAN :
         IF fault \/ CreateFails(s, catalog)
         THEN /\ pc' = "close"
              /\ stmt' = 0
              /\ run' = [run EXCEPT !.error = IF CreateFails(s, catalog)
                                               THEN "already exists"
                                               ELSE "environment",
                                    !.failedAt = stmt]
              /\ UNCHANGED <<catalog, rows>>
         ELSE /\ catalog' = CreateCatalog(s, catalog)
              /\ rows' = CreateRows(s, rows)
              /\ pc' = IF stmt = NumStatements THEN "commit" ELSE "create"
              /\ stmt' = IF stmt = NumStatements THEN 0 ELSE stmt + 1
              /\ run' = run
    /\ trace' = Append(trace, Statements[stmt].name)
    /\ UNCHANGED <<conn, last>>

\* create_tables, conn.commit(): no transaction is open, nothing changes.
Commit ==
    /\ pc = "commit"
    /\ pc' = "close"
    /\ trace' = Append(trace, "commit")
    /\ UNCHANGED <<catalog, rows, stmt, conn, run, last>>

\* main, conn.close().
Close ==
    /\ pc = "close"
    /\ conn' = [conn EXCEPT !.state = "closed"]
    /\ pc' = "done"
    /\ trace' = Append(trace, "close")
    /\ UNCHANGED <<catalog, rows, stmt, run, last>>

-----------------------------------------------------------------------------
(* Row statements of an application session on the store, between runs of  *)
(* main().  A session holds the connection create_connection returns.      *)

Session == EnableForeignKeys(Connected)

InBounds(cat, rws) ==
    IF Initialized(cat)
    THEN \/ TotalRows(rws) <= MaxRows
         \/ \A t \in DOMAIN rws : DOMAIN rws[t] \subseteq {1}
    ELSE TotalRows(rws) <= MaxRerunRows

\* A statement is issued when main() is not running and the session's
\* previous statement has returned; `last` holds its outcome until the
\* session takes it (Return).
Issue ==
    /\ pc \in {"idle", "done"}
    /\ pc' = "statement"
    /\ stmt' = 0
    /\ conn' = NoConnection
    /\ run' = NoRun
    /\ trace' = <<>>
    /\ UNCHANGED catalog

Insert ==
    /\ Issue
    /\ \E t \in DOMAIN catalog :
       \E row \in RowsOffered(catalog[t]) :
         LET id     == NextKey(rows[t])
             status == InsertStatus(catalog, rows, Session.foreign_keys, t, row)
             new    == [rows EXCEPT ![t] = (id :> row) @@ @]
         IN  /\ id \in Keys
             /\ status = "ok" => InBounds(catalog, new)
             /\ rows' = IF status = "ok" THEN new ELSE rows
             /\ last' = [op |-> "insert", tbl |-> t, id |-> id, status |-> status,
                         removed |-> {}, nulled |-> {}]

Update ==
    /\ Issue
    /\ \E t \in DOMAIN catalog :
       \E id \in DOMAIN rows[t], col \in Columns(catalog[t]) :
       \E x \in ValuesOffered(catalog[t], col) \ {rows[t][id][col]} :
         LET status == UpdateStatus(catalog, rows, Session.foreign_keys, t, id, col, x)
         IN  /\ rows' = IF status = "ok" THEN [rows EXCEPT ![t][id][col] = x] ELSE rows
             /\ last' = [op |-> "update", tbl |-> t, id |-> id, status |-> status,
                         removed |-> {}, nulled |-> {}]

Delete ==
    /\ Issue
    /\ \E t \in DOMAIN catalog :
       \E id \in DOMAIN rows[t] :
         LET status == DeleteStatus(catalog, rows, Session.foreign_keys, t, id)
         IN  /\ rows' = IF status = "ok"
                        THEN DeleteRows(catalog, rows, Session.foreign_keys, t, id)
                        ELSE rows
             /\ last' = [op |-> "delete", tbl |-> t, id |-> id, status |-> status,
                         removed |-> IF status = "ok"
                                     THEN Removed(catalog, rows, Session.foreign_keys, t, id)
                                     ELSE {},
                         nulled |-> IF status = "ok"
                                    THEN Nulled(catalog, rows, Session.foreign_keys, t, id)
                                    ELSE {}]

\* The statement has returned; the session goes on.
Return ==
    /\ pc = "statement"
    /\ pc' = "idle"
    /\ last' = NoStatement
    /\ UNCHANGED <<catalog, rows, stmt, conn, run, trace>>

-----------------------------------------------------------------------------

Next ==
    \/ Connect
    \/ Pragma
    \/ CreateTable
    \/ Commit
    \/ Close
    \/ Insert
    \/ Update
    \/ Delete
    \/ Return

Spec == Init /\ [][Next]_vars

-----------------------------------------------------------------------------
(* Properties.  The tables and keys they speak of are written out here,    *)
(* independently of the statements above.                                  *)

NineTables ==
    {"UserAccount", "ProductionLine", "ProductionBatch", "InventoryItem",
     "InventoryTransaction", "DefectType", "DefectLog", "ReturnReason", "ReturnLog"}

\* <<child table, column, parent table>>
CascadeKeys ==
    { <<"ProductionBatch", "ProductionLineID", "ProductionLine">>,
      <<"InventoryTransaction", "InventoryItemID", "InventoryItem">>,
      <<"DefectLog", "BatchID", "ProductionBatch">> }

SetNullKeys ==
    { <<"ProductionBatch", "CreatedByUserID", "UserAccount">>,
      <<"InventoryTransaction", "UpdatedByUserID", "UserAccount">>,
      <<"DefectLog", "LoggedByUserID", "UserAccount">>,
      <<"ReturnLog", "ProcessedByUserID", "UserAccount">>,
      <<"InventoryTransaction", "BatchID", "ProductionBatch">>,
      <<"ReturnLog", "BatchID", "ProductionBatch">>,
      <<"ReturnLog", "ReturnReasonID", "ReturnReason">> }

RestrictKeys == { <<"DefectLog", "DefectTypeID", "DefectType">> }

ForeignKeys == CascadeKeys \cup SetNullKeys \cup RestrictKeys

\* The step is a step of main().
MainStep == pc' \in {"pragma", "create", "commit", "close", "done"}

\* The step is a row statement of a session; last' tells which.
StatementStep == pc' = "statement"

DeleteStep == StatementStep /\ last'.op = "delete"

\* Row k of table c references, through column col, a row of p that this
\* step removes.
ParentGone(c, k, col, p) ==
    /\ rows[c][k][col] # NULL
    /\ ValueOf(rows[c][k][col]) \in DOMAIN rows[p]
    /\ ValueOf(rows[c][k][col]) \notin DOMAIN rows'[p]

Present(key) == key[1] \in DOMAIN rows /\ key[3] \in DOMAIN rows

\* C1: on a store that holds the nine tables, whatever rows it holds, no
\* step of main() changes the catalog or any row, and main() never meets
\* "table already exists": a second run reports an error only if the
\* environment fails it.
C1_Idempotent ==
    [][ (MainStep /\ DOMAIN catalog = NineTables) =>
            /\ catalog' = catalog
            /\ rows' = rows
            /\ run'.error # "already exists"
            /\ (pc' = "done" /\ run'.error = "none" => Len(trace') = 13) ]_vars

C1_Witness ==
    /\ pc = "done"
    /\ run.before = NineTables
    /\ run.error = "none"
    /\ DOMAIN catalog = NineTables
    /\ \A i \in 1..NumStatements :
           catalog[Statements[i].name] = TableDef(Statements[i])
    /\ TotalRows(rows) = MaxRerunRows

\* C2: a run of main() that started on an empty store and met no error
\* leaves exactly the nine tables, all of them empty.
C2_NineEmptyTables ==
    (pc = "done" /\ run.error = "none" /\ run.before = {}) =>
        /\ DOMAIN catalog = NineTables
        /\ DOMAIN rows = NineTables
        /\ \A t \in NineTables : DOMAIN rows[t] = {}

C2_Witness ==
    /\ pc = "done"
    /\ run.error = "none"
    /\ run.before = {}
    /\ conn.state = "closed"
    /\ Cardinality(DOMAIN catalog) = 9

\* C3: when the connection cannot be opened the handle is absent, main() is
\* over after that one step (no statement, no commit, no close), and the
\* store is as it was.
C3_ConnectionFailure ==
    [][ run'.error = "connection" =>
            /\ conn' = NoConnection
            /\ pc' = "done"
            /\ trace' = <<"connect">>
            /\ catalog' = catalog
            /\ rows' = rows ]_vars

C3_Witness ==
    /\ pc = "done"
    /\ run.error = "connection"
    /\ conn.state = "none"
    /\ trace = <<"connect">>
    /\ DOMAIN catalog = NineTables
    /\ TotalRows(rows) > 0

\* The tables declared by the first n statements.
FirstTables(n) == {Statements[i].name : i \in 1..n}

\* C4: when the k-th CREATE statement fails, the run has executed statements
\* 1..k and nothing of create_tables after them, the store holds what it
\* held before the run plus the tables of statements 1..k-1, every table and
\* row that existed is unchanged, and main() goes on to close the connection.
C4_PartialSchema ==
    [][ /\ MainStep =>
            \A t \in DOMAIN catalog : /\ t \in DOMAIN catalog'
                                      /\ catalog'[t] = catalog[t]
                                      /\ rows'[t] = rows[t]
        /\ run'.failedAt > 0 =>
            /\ pc' \in {"close", "done"}
            /\ run'.error \in {"environment", "already exists"}
            /\ SubSeq(trace', 1, 2 + run'.failedAt) =
                   <<"connect", "foreign_keys">>
                     \o [i \in 1..run'.failedAt |-> Statements[i].name]
            /\ trace' \in { SubSeq(trace', 1, 2 + run'.failedAt),
                            Append(SubSeq(trace', 1, 2 + run'.failedAt), "close") }
            /\ DOMAIN catalog' = run'.before \cup FirstTables(run'.failedAt - 1)
            /\ (pc' = "done" => conn'.state = "closed" /\ trace'[Len(trace')] = "close")
            /\ (pc' = "close" => conn'.state = "open") ]_vars

C4_Witness ==
    /\ pc = "done"
    /\ run.failedAt = 5
    /\ run.before = {"UserAccount", "ProductionLine"}
    /\ DOMAIN catalog =
         {"UserAccount", "ProductionLine", "ProductionBatch", "InventoryItem"}
    /\ conn.state = "closed"
    /\ TotalRows(rows) > 0

\* C5: a delete of a ProductionLine, InventoryItem or ProductionBatch row
\* succeeds; in every delete, a ProductionBatch, InventoryTransaction or
\* DefectLog row whose parent (line, item, batch) is removed is removed with
\* it, and a row of those tables whose parent stays is kept as it is, unless
\* it is the row the statement deletes.
C5_CascadeDelete ==
    [][ DeleteStep =>
          /\ last'.tbl \in {"ProductionLine", "InventoryItem", "ProductionBatch"} =>
                /\ last'.status = "ok"
                /\ last'.id \notin DOMAIN rows'[last'.tbl]
          /\ \A key \in CascadeKeys : Present(key) =>
                \A k \in DOMAIN rows[key[1]] :
                    IF ParentGone(key[1], k, key[2], key[3])
                    THEN k \notin DOMAIN rows'[key[1]]
                    ELSE <<last'.tbl, last'.id>> # <<key[1], k>> =>
                            /\ k \in DOMAIN rows'[key[1]]
                            /\ rows'[key[1]][k][key[2]] = rows[key[1]][k][key[2]] ]_vars

\* A line with a batch has been deleted, and the batch of the other line is
\* still there.
C5_Witness ==
    /\ pc = "statement"
    /\ DOMAIN catalog = NineTables
    /\ last.op = "delete" /\ last.tbl = "ProductionLine" /\ last.status = "ok"
    /\ \E b \in Keys : <<"ProductionBatch", b>> \in last.removed
    /\ \E b \in DOMAIN rows["ProductionBatch"] :
          rows["ProductionBatch"][b]["ProductionLineID"] # Val(last.id)

\* C6: a delete of a UserAccount, ProductionBatch or ReturnReason row
\* succeeds; in every delete, a row that references a removed row through
\* one of the seven SET NULL keys is kept, with that column NULL and every
\* other column as it was.
C6_SetNullOnDelete ==
    [][ DeleteStep =>
          /\ last'.tbl \in {"UserAccount", "ProductionBatch", "ReturnReason"} =>
                /\ last'.status = "ok"
                /\ last'.id \notin DOMAIN rows'[last'.tbl]
          /\ last'.tbl = "UserAccount" =>
                \A t \in DOMAIN rows \ {"UserAccount"} : DOMAIN rows'[t] = DOMAIN rows[t]
          /\ \A key \in SetNullKeys : Present(key) =>
                \A k \in DOMAIN rows[key[1]] :
                    ParentGone(key[1], k, key[2], key[3]) =>
                        /\ k \in DOMAIN rows'[key[1]]
                        /\ rows'[key[1]][k] = [rows[key[1]][k] EXCEPT ![key[2]] = NULL] ]_vars

\* A user who had created a batch has been deleted; the batch is there with
\* no creator.
C6_Witness ==
    /\ pc = "statement"
    /\ DOMAIN catalog = NineTables
    /\ last.op = "delete" /\ last.tbl = "UserAccount" /\ last.status = "ok"
    /\ \E b \in DOMAIN rows["ProductionBatch"] :
          /\ <<"ProductionBatch", b, "CreatedByUserID">> \in last.nulled
          /\ rows["ProductionBatch"][b]["CreatedByUserID"] = NULL
          /\ rows["ProductionBatch"][b]["ProductionLineID"] # NULL

\* A DefectLog row references DefectType row d.
DefectLogged(rws, d) ==
    \E k \in DOMAIN rws["DefectLog"] : rws["DefectLog"][k]["DefectTypeID"] = Val(d)

\* C7: a delete of a DefectType row fails exactly when a DefectLog row
\* references it, and then no table changes; otherwise it removes the row.
C7_RestrictDelete ==
    [][ (DeleteStep /\ last'.tbl = "DefectType") =>
          IF "DefectLog" \in DOMAIN rows /\ DefectLogged(rows, last'.id)
          THEN /\ last'.status = "restrict"
               /\ rows' = rows
               /\ catalog' = catalog
          ELSE /\ last'.status = "ok"
               /\ last'.id \notin DOMAIN rows'["DefectType"] ]_vars

C7_Witness ==
    /\ pc = "statement"
    /\ DOMAIN catalog = NineTables
    /\ last.op = "delete" /\ last.tbl = "DefectType" /\ last.status = "restrict"
    /\ last.id \in DOMAIN rows["DefectType"]
    /\ DefectLogged(rows, last.id)

\* The value stored in a column is not negative.  A NULL, which only the
\* nullable ReorderThreshold can hold, is no value.
NotNegative(x) == \A v \in x : v >= 0

\* C8: no stored QuantityProduced, QuantityInStock or ReorderThreshold is
\* negative, QuantityInStock and QuantityProduced are never NULL, and a
\* statement rejected by a CHECK leaves the store as it was.
C8_NonNegative ==
    [][ /\ "ProductionBatch" \in DOMAIN rows' =>
            \A k \in DOMAIN rows'["ProductionBatch"] :
                /\ rows'["ProductionBatch"][k]["QuantityProduced"] # NULL
                /\ NotNegative(rows'["ProductionBatch"][k]["QuantityProduced"])
        /\ "InventoryItem" \in DOMAIN rows' =>
            \A k \in DOMAIN rows'["InventoryItem"] :
                /\ rows'["InventoryItem"][k]["QuantityInStock"] # NULL
                /\ NotNegative(rows'["InventoryItem"][k]["QuantityInStock"])
                /\ NotNegative(rows'["InventoryItem"][k]["ReorderThreshold"])
        /\ (StatementStep /\ last'.status = "check") =>
                /\ rows' = rows
                /\ catalog' = catalog
                /\ last'.tbl \in {"ProductionBatch", "InventoryItem"} ]_vars

\* An insert into InventoryItem has been rejected by a CHECK while a
\* transaction with a negative QuantityChange is stored.
C8_Witness ==
    /\ pc = "statement"
    /\ DOMAIN catalog = NineTables
    /\ last.op = "insert" /\ last.tbl = "InventoryItem" /\ last.status = "check"
    /\ \E k \in DOMAIN rows["InventoryTransaction"] :
          rows["InventoryTransaction"][k]["QuantityChange"] = Val(-1)

\* The steps of main() in their order.
FixedOrder ==
    <<"connect", "foreign_keys">>
      \o [i \in 1..NumStatements |-> Statements[i].name]
      \o <<"commit", "close">>

Position(step) == CHOOSE i \in 1..Len(FixedOrder) : FixedOrder[i] = step

\* C9: the steps a run has executed are steps of the fixed order, in that
\* order, starting with connect and the PRAGMA; a run that met no error has
\* executed all of them; foreign keys are on whenever a CREATE statement is
\* about to execute; and every table in the store, at any time, has the
\* parents of all its foreign keys in the store and created before it.
C9_LinearOrder ==
    /\ \A i \in 1..Len(trace) :
          /\ \E j \in 1..Len(FixedOrder) : FixedOrder[j] = trace[i]
          /\ \A j \in 1..(i - 1) : Position(trace[j]) < Position(trace[i])
    /\ Len(trace) >= 1 => trace[1] = "connect"
    /\ Len(trace) >= 2 => trace[2] = "foreign_keys"
    /\ (pc = "done" /\ run.error = "none") => trace = FixedOrder
    /\ Len(FixedOrder) = 13
    /\ pc = "create" => conn.foreign_keys /\ conn.state = "open"
    /\ \A i \in 1..Len(trace) : \A key \in ForeignKeys :
          trace[i] = key[1] => \E j \in 1..(i - 1) : trace[j] = key[3]
    /\ \A key \in ForeignKeys :
          key[1] \in DOMAIN catalog => key[3] \in DOMAIN catalog

C9_Witness ==
    /\ pc = "done"
    /\ run.error = "none"
    /\ Len(trace) = 13
    /\ trace[3] = "UserAccount"
    /\ trace[11] = "ReturnLog"

\* Every foreign-key value of the store is NULL or the key of a parent row.
ReferencesHold(rws) ==
    \A key \in ForeignKeys : key[1] \in DOMAIN rws =>
        \A k \in DOMAIN rws[key[1]] :
            \/ rws[key[1]][k][key[2]] = NULL
            \/ /\ key[3] \in DOMAIN rws
               /\ ValueOf(rws[key[1]][k][key[2]]) \in DOMAIN rws[key[3]]

\* C10: every step leaves every foreign-key value NULL or referring to an
\* existing parent row, and a statement rejected for a missing parent
\* leaves the store as it was.
C10_ReferentialIntegrity ==
    [][ /\ ReferencesHold(rows')
        /\ (StatementStep /\ last'.status = "fk") =>
                /\ rows' = rows
                /\ last'.op \in {"insert", "update"} ]_vars

\* A line has been deleted; with it went its batch and the batch's defect
\* log, and the transaction and the return that named the batch now name none.
C10_Witness ==
    /\ pc = "statement"
    /\ DOMAIN catalog = NineTables
    /\ last.op = "delete" /\ last.tbl = "ProductionLine" /\ last.status = "ok"
    /\ \E b \in Keys :
          /\ <<"ProductionBatch", b>> \in last.removed
          /\ \E d \in Keys : <<"DefectLog", d>> \in last.removed
          /\ \E x \in Keys : /\ <<"InventoryTransaction", x, "BatchID">> \in last.nulled
                             /\ rows["InventoryTransaction"][x]["BatchID"] = NULL
          /\ \E r \in Keys : /\ <<"ReturnLog", r, "BatchID">> \in last.nulled
                             /\ rows["ReturnLog"][r]["BatchID"] = NULL
    /\ ReferencesHold(rows)

====
